---- MODULE Spec2Model ----
(***************************************************************************)
(* A model of the PromQL language server core:                             *)
(*   - the session (langserver.server): its serverState, its message loop, *)
(*     its lifetime scope, its document cache and the diagnostics task     *)
(*     (langserver/diagnostics.go, langserver/server.go);                  *)
(*   - the upstream client facade (prometheus.httpClient): the sub-client  *)
(*     swap under the read/write lock and the build-info probe.            *)
(* Spec drives one session built by StdioServer together with its          *)
(* diagnostics tasks; SpecSessions drives the sessions of one process, built *)
(* by a caller or by the acceptor, under one root context; SpecClient      *)
(* drives one facade with concurrent readers and writers.                  *)
(***************************************************************************)
EXTENDS Integers, Sequences, FiniteSets, TLC

\* ------------------------------------------------------------------ bounds
\* Highest document version a peer sends.
MaxVersion == 2
\* Diagnostics tasks (one per successful open/change) a session starts.
MaxTasks == 2

Sessions == {"s1", "s2"}
\* The session StdioServer builds.
StdioSessions == {"s1"}
\* The session on the connection the listener hands to the acceptor.
TCPSessions == {"s2"}
\* config.PrometheusURL: none, or a backend.
ConfigURLs == {"", "http://prom-a"}
URIs == {"file:///a.promql"}
Contents == {"up", "up{job="}
\* What the diagnostics provider can return: no finding, or one.
FindingLists == {<<>>, <<"parse error">>}

\* ------------------------------------------------------- serverState (iota)
serverCreated == 0
serverInitializing == 1
serverInitialized == 2
serverShutDown == 3

VARIABLES
    rootDone,       \* the context handed to StdioServer / RunTCPServers is cancelled
    origin,         \* session -> "none" | "stdio" | "caller" | "tcp": who built it
    prometheus,     \* session -> s.prometheus: "nil", or the client of a URL
    state,          \* session -> serverState
    running,        \* session -> the message loop (Conn.Run) is running
    connOpen,       \* session -> the transport connection is open
    lifetimeDone,   \* session -> s.lifetime is cancelled
    docs,           \* session -> URI -> document (tracked, version, content, ctx)
    ctxs,           \* session -> sequence of VersionContexts, by id
    tasks,          \* session -> sequence of diagnostics tasks (goroutines)
    sent,           \* session -> the publishDiagnostics notifications the step just taken sent
    lastResult      \* session -> outcome of the request the step just taken handled

sessVars == <<rootDone, origin, prometheus, state, running, connOpen, lifetimeDone>>
docVars == <<docs, ctxs, tasks>>
\* What the step just taken reported and sent.
outVars == <<lastResult, sent>>

\* A step that handles no request ...
NoRequest == lastResult' = [s \in Sessions |-> "none"]
\* ... a step that handles one, with its outcome ...
Outcome(s, what) == lastResult' = [t \in Sessions |-> IF t = s THEN what ELSE "none"]
\* ... a step that sends nothing ...
NoSend == sent' = [s \in Sessions |-> <<>>]
\* ... and a step that sends.
Send(s, msgs) == sent' = [t \in Sessions |-> IF t = s THEN msgs ELSE <<>>]

\* --------------------------------------------------------------- documents
NoDoc == [tracked |-> FALSE, version |-> 0, content |-> "", ctx |-> 0]

\* A VersionContext is live, or done for one of three reasons.
CtxLive(s, c) == c # 0 /\ ctxs[s][c].done = "live"

\* context.WithCancel(parent): a scope derived from a cancelled parent is
\* born cancelled.
DeriveCtx(s, u, v) ==
    [uri |-> u, version |-> v,
     done |-> IF lifetimeDone[s] THEN "lifetime" ELSE "live"]

\* A cancel that never reaches the context.
CancelCtx_Forgotten(cs, c, why) == cs

\* Cancelling one VersionContext; cancelling an already cancelled one is a no-op.
CancelCtx(cs, c, why) ==
    IF c # 0 /\ cs[c].done = "live" THEN [cs EXCEPT ![c].done = why] ELSE cs

\* Cancelling the lifetime scope cancels every VersionContext derived from it.
CancelAll(cs, why) ==
    [c \in DOMAIN cs |-> IF cs[c].done = "live" THEN [cs[c] EXCEPT !.done = why] ELSE cs[c]]

\* go s.diagnostics(uri): a new task, at its first statement.
NewTask(u) ==
    [uri |-> u, pc |-> "getDocument", hasDoc |-> FALSE, ctx |-> 0,
     version |-> 0, findings |-> <<>>]

\* A task that has returned: its locals are gone.
EndTask(tk, how) == [NewTask(tk.uri) EXCEPT !.pc = how]

\* A publishDiagnostics notification handed to the client connection.
\*   kind: "diag" (from a diagnostics task) or "clear" (from clearDiagnostics);
\*   err: the send failed (it is only logged);
\*   ctxDone: the state of the task's VersionContext when the message left.
Notification(u, v, f, k, e, d) ==
    [uri |-> u, version |-> v, findings |-> f, kind |-> k, err |-> e, ctxDone |-> d]

\* ------------------------------------------------------------ the facade
\* Sub-client identities kept apart: a new instance takes the identity after
\* the installed one's, and the identities are reused in a cycle.
MaxInstances == 3

Readers == {"r1", "r2"}
Writers == {"w1", "w2"}
\* The data-source URLs callers pass: none, two backends, one that does not parse.
URLs == {"", "http://prom-a", "http://prom-b", "::bad"}
QueryMethods == {"Metadata", "AllMetadata", "LabelNames", "LabelValues"}
Methods == QueryMethods \cup {"GetURL"}

VARIABLES
    facade,     \* "none" | "constructing" | "live" | "discarded" (NewClient)
    url,        \* c.url: a Go string, two words (data pointer, length)
    subClient,  \* c.subClient: the installed sub-client instance, or nil
    rwReaders,  \* c.mutex: the threads holding the read lock
    rwWriter,   \* c.mutex: the thread holding the write lock, or "none"
    rwPending,  \* c.mutex: the writers blocked in Lock()
    rd,         \* reader thread -> its call (a query method or GetURL)
    wr          \* writer thread -> its call (ChangeDataSource, NewClient)

clientVars ==
    <<facade, url, subClient, rwReaders, rwWriter, rwPending, rd, wr>>

vars == <<sessVars, docVars, outVars, clientVars>>

\* ------------------------------------------------------ session: lifecycle
\* A server built as if the handshake were over.
ZeroState_Initialized == serverInitialized

\* s := &server{}: the state field holds the zero value of serverState.
ZeroState == serverCreated

\* A document cache kept in one place for all sessions, emptied at each
\* construction.
NewCache_Shared(s) == [t \in Sessions |-> [u \in URIs |-> NoDoc]]

\* s := &server{}: the cache field of the new server is an empty cache of
\* its own.
NewCache(s) == [docs EXCEPT ![s] = [u \in URIs |-> NoDoc]]

\* api.NewClient(api.Config{Address: config.PrometheusURL}), called for a
\* non-empty URL only: s.prometheus stays nil otherwise.
SessionClient(cfg) == IF cfg = "" THEN "nil" ELSE cfg

\* A lifetime scope derived from context.Background() in place of ctx.
WithCancel_Background(parentDone) == FALSE

\* context.WithCancel(ctx): the new scope is done as soon as its parent is.
WithCancel(parentDone) == parentDone

\* ServerFromStream: s := &server{} (state is the zero value, an empty cache),
\* s.prometheus is built from the configuration, protocol.NewServer binds the
\* connection, and s.lifetime, s.exit = context.WithCancel(ctx): a scope
\* derived from a cancelled context is born cancelled.
ServerFromStream(s, how, cfg) ==
    /\ origin[s] = "none"
    /\ origin' = [origin EXCEPT ![s] = how]
    /\ prometheus' = [prometheus EXCEPT ![s] = SessionClient(cfg)]
    /\ state' = [state EXCEPT ![s] = ZeroState]
    /\ connOpen' = [connOpen EXCEPT ![s] = TRUE]
    /\ lifetimeDone' = [lifetimeDone EXCEPT ![s] = WithCancel(rootDone)]
    /\ Outcome(s, "constructed")
    /\ docs' = NewCache(s)
    /\ ctxs' = [ctxs EXCEPT ![s] = <<>>]
    /\ tasks' = [tasks EXCEPT ![s] = <<>>]
    /\ NoSend
    /\ UNCHANGED <<rootDone, running, clientVars>>

\* StdioServer: ServerFromStream on stdin/stdout.
StdioServer(s, cfg) ==
    /\ s \in StdioSessions
    /\ ServerFromStream(s, "stdio", cfg)

\* A caller of the package builds a session on a stream of its own.
CallerSession(s, cfg) == ServerFromStream(s, "caller", cfg)

\* RunTCPServers: ln.Accept() hands over a connection and the loop starts
\*   go ServerFromStream(ctx, jsonrpc2.NewHeaderStream(conn, conn), config)
\* whose result nobody receives; the loop goes back to ln.Accept().
Accept(s, cfg) ==
    /\ s \in TCPSessions
    /\ ServerFromStream(s, "tcp", cfg)

\* Who holds the Server value ServerFromStream returned, and can call Run on
\* it: the caller of StdioServer or of ServerFromStream. The acceptor's
\* goroutine drops it.
Holders == {"stdio", "caller"}

\* Server.Run: s.server.Conn.Run(s.server.lifetime); the loop serves requests
\* while the lifetime scope is live and the connection is open.
Run(s) ==
    /\ origin[s] \in Holders
    /\ ~running[s]
    /\ ~lifetimeDone[s] /\ connOpen[s]
    /\ running' = [running EXCEPT ![s] = TRUE]
    /\ NoRequest /\ NoSend
    /\ UNCHANGED <<rootDone, origin, prometheus, state, connOpen, lifetimeDone, docVars, clientVars>>

\* A request handled without any change but its outcome.
Reject(s, why) ==
    /\ Outcome(s, why)
    /\ NoSend
    /\ UNCHANGED <<sessVars, docVars, clientVars>>

\* The handlers' transitions of s.state.
SetState(s, new) ==
    /\ state' = [state EXCEPT ![s] = new]
    /\ Outcome(s, "ok")
    /\ NoSend
    /\ UNCHANGED <<rootDone, origin, prometheus, running, connOpen, lifetimeDone, docVars, clientVars>>

\* initialize request
Initialize(s) ==
    /\ running[s]
    /\ IF state[s] = serverCreated
          THEN SetState(s, serverInitializing)
          ELSE Reject(s, "InvalidState")

\* initialized notification
Initialized(s) ==
    /\ running[s]
    /\ IF state[s] = serverInitializing
          THEN SetState(s, serverInitialized)
          ELSE Reject(s, "InvalidState")

\* A request other than the handshake is refused in Created and ShutDown.
Serving(s) == state[s] \in {serverInitializing, serverInitialized}

\* shutdown request
Shutdown(s) ==
    /\ running[s]
    /\ IF Serving(s)
          THEN SetState(s, serverShutDown)
          ELSE Reject(s, "InvalidState")

\* The clear-diagnostics notifications the session emits when it ends, one per
\* tracked document; on a closed connection each send fails.
RECURSIVE ClearAll(_, _, _)
ClearAll(ds, us, open) ==
    IF us = {} THEN <<>>
    ELSE LET u == CHOOSE x \in us : TRUE
         IN  (IF ds[u].tracked
                 THEN <<Notification(u, ds[u].version, <<>>, "clear", ~open, "lifetime")>>
                 ELSE <<>>) \o ClearAll(ds, us \ {u}, open)

\* The end of a session: the lifetime scope is cancelled (and with it every
\* VersionContext), the loop stops, the state is ShutDown.
EndSession(s, open) ==
    /\ state' = [state EXCEPT ![s] = serverShutDown]
    /\ running' = [running EXCEPT ![s] = FALSE]
    /\ connOpen' = [connOpen EXCEPT ![s] = open]
    /\ lifetimeDone' = [lifetimeDone EXCEPT ![s] = TRUE]
    /\ ctxs' = [ctxs EXCEPT ![s] = CancelAll(ctxs[s], "lifetime")]
    /\ Send(s, ClearAll(docs[s], URIs, open))
    /\ Outcome(s, "ended")
    /\ UNCHANGED <<rootDone, origin, prometheus, docs, tasks, clientVars>>

\* The context handed to StdioServer, ServerFromStream or RunTCPServers is
\* cancelled: every lifetime scope derived from it is cancelled with it, and
\* each session whose scope was live ends as on exit.
CancelRoot ==
    LET hit == {s \in Sessions : origin[s] # "none" /\ ~lifetimeDone[s]}
    IN  /\ ~rootDone
        /\ rootDone' = TRUE
        /\ lifetimeDone' = [s \in Sessions |-> lifetimeDone[s] \/ s \in hit]
        /\ running' = [s \in Sessions |-> running[s] /\ s \notin hit]
        /\ state' = [s \in Sessions |-> IF s \in hit THEN serverShutDown ELSE state[s]]
        /\ ctxs' = [s \in Sessions |-> CancelAll(ctxs[s], "lifetime")]
        /\ sent' = [s \in Sessions |->
                      IF s \in hit THEN ClearAll(docs[s], URIs, connOpen[s]) ELSE <<>>]
        /\ lastResult' = [s \in Sessions |-> IF s \in hit THEN "ended" ELSE "none"]
        /\ UNCHANGED <<origin, prometheus, connOpen, docs, tasks, clientVars>>

\* The session's data source is changed to the backend u.
SessionChangeDataSource(s, u) ==
    /\ running[s]
    /\ IF ~Serving(s) THEN Reject(s, "InvalidState")
       ELSE /\ prometheus' = [prometheus EXCEPT ![s] = SessionClient(u)]
            /\ Outcome(s, "ok")
            /\ NoSend
            /\ UNCHANGED <<rootDone, origin, state, running, connOpen, lifetimeDone,
                           docVars, clientVars>>

\* The peer closes the connection.
TransportClose(s) ==
    /\ origin[s] # "none"
    /\ connOpen[s]
    /\ EndSession(s, FALSE)

\* exit notification: s.exit() cancels s.lifetime.
Exit(s) ==
    /\ running[s]
    /\ EndSession(s, TRUE)

\* ------------------------------------------------- session: document cache
\* What a successful open/change does to the cache: the document's previous
\* VersionContext (if any) is cancelled, a fresh one is derived from the
\* lifetime scope, and the handler starts a diagnostics task (go s.diagnostics).
InstallVersion(s, u, content, v) ==
    LET old == docs[s][u].ctx
        cs == CancelCtx(ctxs[s], old, "superseded")
        new == Len(cs) + 1
    IN  /\ ctxs' = [ctxs EXCEPT ![s] = Append(cs, DeriveCtx(s, u, v))]
        /\ docs' = [docs EXCEPT ![s][u] =
                        [tracked |-> TRUE, version |-> v, content |-> content, ctx |-> new]]
        /\ tasks' = [tasks EXCEPT ![s] = Append(tasks[s], NewTask(u))]
        /\ Outcome(s, "ok")
        /\ NoSend
        /\ UNCHANGED <<sessVars, clientVars>>

\* The diagnostics tasks started so far (go s.diagnostics), all sessions together.
RECURSIVE CountTasks(_)
CountTasks(ss) ==
    IF ss = {} THEN 0
    ELSE LET s == CHOOSE x \in ss : TRUE
         IN  Len(tasks[s]) + CountTasks(ss \ {s})

TasksStarted == CountTasks(Sessions)

\* A change that is refused only when its version is lower.
OutOfOrder_Lower(d, v) == v < d.version

\* change requires version > previous.
OutOfOrder(d, v) == v <= d.version

\* textDocument/didOpen: open(uri, content, version)
DidOpen(s, u, content, v) ==
    /\ running[s]
    /\ IF ~Serving(s) THEN Reject(s, "InvalidState")
       ELSE IF docs[s][u].tracked THEN Reject(s, "AlreadyOpen")
       ELSE TasksStarted < MaxTasks /\ InstallVersion(s, u, content, v)

\* textDocument/didChange: change(uri, content, version)
DidChange(s, u, content, v) ==
    /\ running[s]
    /\ IF ~Serving(s) THEN Reject(s, "InvalidState")
       ELSE IF ~docs[s][u].tracked THEN Reject(s, "NotOpen")
       ELSE IF OutOfOrder(docs[s][u], v) THEN Reject(s, "OutOfOrder")
       ELSE TasksStarted < MaxTasks /\ InstallVersion(s, u, content, v)

\* s.client.PublishDiagnostics: the message goes out on an open connection, or
\* the send fails (the caller only logs the failure).
SendOutcomes(s) == IF connOpen[s] THEN {FALSE, TRUE} ELSE {TRUE}

\* clearDiagnostics(ctx, uri, version): a report with an empty findings list.
clearDiagnostics(s, u, v, failed) ==
    Send(s, <<Notification(u, v, <<>>, "clear", failed, "closed")>>)

\* textDocument/didClose: close(uri): the document's VersionContext is
\* cancelled, the document is no longer tracked, and clearDiagnostics is sent.
DidClose(s, u) ==
    /\ running[s]
    /\ IF ~Serving(s) THEN Reject(s, "InvalidState")
       ELSE IF ~docs[s][u].tracked THEN Reject(s, "NotOpen")
       ELSE /\ ctxs' = [ctxs EXCEPT ![s] = CancelCtx(ctxs[s], docs[s][u].ctx, "closed")]
            /\ docs' = [docs EXCEPT ![s][u] = NoDoc]
            /\ \E failed \in SendOutcomes(s) : clearDiagnostics(s, u, docs[s][u].version, failed)
            /\ Outcome(s, "closed")
            /\ UNCHANGED <<sessVars, tasks, clientVars>>

\* ------------------------------------------------ session: diagnostics task
TaskAt(s, t, where) == t \in DOMAIN tasks[s] /\ tasks[s][t].pc = where

TaskStep(s, t, new) ==
    /\ tasks' = [tasks EXCEPT ![s][t] = new]
    /\ NoRequest /\ NoSend
    /\ UNCHANGED <<sessVars, docs, ctxs, clientVars>>

\* d, ctx, err := s.cache.GetDocument(uri): the document the URI names now and
\* its current VersionContext. A failed lookup is only logged: the task goes
\* on with no document.
DiagGetDocument(s, t) ==
    /\ TaskAt(s, t, "getDocument")
    /\ LET tk == tasks[s][t]
           d == docs[s][tk.uri]
       IN  TaskStep(s, t, [tk EXCEPT !.pc = "getVersion",
                                     !.hasDoc = d.tracked,
                                     !.ctx = d.ctx])

\* A version read that never reports Expired.
Expired_Never(s, c) == FALSE

\* GetVersion(ctx) fails Expired when ctx is cancelled.
Expired(s, c) == ~CtxLive(s, c)

\* version, expired := d.GetVersion(ctx): Expired when ctx is cancelled, the
\* document's version otherwise; on no document, the call faults.
DiagGetVersion(s, t) ==
    /\ TaskAt(s, t, "getVersion")
    /\ LET tk == tasks[s][t]
       IN  IF ~tk.hasDoc
              THEN TaskStep(s, t, EndTask(tk, "fault"))
           ELSE IF Expired(s, tk.ctx)
              THEN TaskStep(s, t, EndTask(tk, "done"))
           ELSE TaskStep(s, t, [tk EXCEPT !.pc = "getDiagnostics",
                                          !.version = docs[s][tk.uri].version])

\* diagnostics, err := d.GetDiagnostics(ctx): the provider's findings, or an
\* error when the provider fails or ctx has expired by the time it answers.
DiagGetDiagnostics(s, t) ==
    /\ TaskAt(s, t, "getDiagnostics")
    /\ LET tk == tasks[s][t]
       IN  IF ~CtxLive(s, tk.ctx)
              THEN TaskStep(s, t, EndTask(tk, "done"))
              ELSE \/ TaskStep(s, t, EndTask(tk, "done"))
                   \/ \E f \in FindingLists :
                         TaskStep(s, t, [tk EXCEPT !.pc = "publish", !.findings = f])

\* s.client.PublishDiagnostics(ctx, reply), the call: a send under a context
\* that is already done fails with the context's error; otherwise the
\* message is on its way (transport I/O: the task is suspended in the write).
DiagPublishCall(s, t) ==
    /\ TaskAt(s, t, "publish")
    /\ LET tk == tasks[s][t]
       IN  IF ~CtxLive(s, tk.ctx)
              THEN TaskStep(s, t, EndTask(tk, "done"))
              ELSE TaskStep(s, t, [tk EXCEPT !.pc = "sending"])

\* A task that a failed send brings down.
AfterPublish_Fatal(tk, failed) == EndTask(tk, IF failed THEN "fault" ELSE "done")

\* if err = s.client.PublishDiagnostics(ctx, reply); err != nil { two lines
\* on stderr }: the task returns, whether the send failed or not.
AfterPublish(tk, failed) == EndTask(tk, "done")

\* s.client.PublishDiagnostics(ctx, reply), the write: the report reaches the
\* peer, or the send fails and the failure is logged.
DiagPublishWrite(s, t) ==
    /\ TaskAt(s, t, "sending")
    /\ LET tk == tasks[s][t]
       IN  /\ \E failed \in SendOutcomes(s) :
                 Send(s, <<Notification(tk.uri, tk.version, tk.findings, "diag",
                                        failed, ctxs[s][tk.ctx].done)>>)
           /\ tasks' = [tasks EXCEPT ![s][t] = AfterPublish(tk, sent'[s][1].err)]
           /\ NoRequest
           /\ UNCHANGED <<sessVars, docs, ctxs, clientVars>>

\* func (s *Server) diagnostics(uri string)
diagnostics(s, t) ==
    \/ DiagGetDocument(s, t)
    \/ DiagGetVersion(s, t)
    \/ DiagGetDiagnostics(s, t)
    \/ DiagPublishCall(s, t)
    \/ DiagPublishWrite(s, t)

\* ------------------------------------------------------ facade: the probe
StatusNotFound == 404

\* What data.version of a build-info payload can hold: dot-separated numbers
\* (three of them in a semantic version), with or without a pre-release tag.
VersionStrings ==
    [parts : {<<ma, mi, pa>> : ma \in {1, 2, 3}, mi \in {14, 15, 16}, pa \in {0, 9}},
     pre : BOOLEAN]
    \cup {[parts |-> <<2, 15>>, pre |-> FALSE], [parts |-> <<>>, pre |-> FALSE]}

\* What httpClient.Do(httpRequest) can bring back.
ProbeResponses ==
    {[kind |-> "neterr", status |-> 0, json |-> FALSE, version |-> [parts |-> <<>>, pre |-> FALSE]]}
    \cup [kind : {"http"}, status : {200, StatusNotFound}, json : {FALSE},
          version : {[parts |-> <<>>, pre |-> FALSE]}]
    \cup [kind : {"http"}, status : {200, StatusNotFound}, json : {TRUE},
          version : VersionStrings]

NoResponse == [kind |-> "none", status |-> 0, json |-> FALSE, version |-> [parts |-> <<>>, pre |-> FALSE]]

\* requiredVersion = semver.MustParse("2.15.0")
requiredVersion == [valid |-> TRUE, major |-> 2, minor |-> 15, patch |-> 0, pre |-> FALSE]

\* semver.New: a version needs exactly major.minor.patch.
SemverNew(str) ==
    IF Len(str.parts) = 3
       THEN [valid |-> TRUE, major |-> str.parts[1], minor |-> str.parts[2],
             patch |-> str.parts[3], pre |-> str.pre]
       ELSE [valid |-> FALSE, major |-> 0, minor |-> 0, patch |-> 0, pre |-> FALSE]

\* semver.Version.Compare: major, then minor, then patch; on equal numbers a
\* version with a pre-release tag is the lower one.
SemverCompare(v, o) ==
    IF v.major # o.major THEN (IF v.major > o.major THEN 1 ELSE -1)
    ELSE IF v.minor # o.minor THEN (IF v.minor > o.minor THEN 1 ELSE -1)
    ELSE IF v.patch # o.patch THEN (IF v.patch > o.patch THEN 1 ELSE -1)
    ELSE IF v.pre = o.pre THEN 0
    ELSE IF o.pre THEN 1 ELSE -1

\* A strict comparison in place of GTE.
SemverGTE_Strict(v, o) == SemverCompare(v, o) > 0

\* currentVersion.GTE(requiredVersion)
SemverGTE(v, o) == SemverCompare(v, o) >= 0

\* url.Parse, as api.NewClient and buildStatusRequest call it.
Parseable(u) == u # "::bad"

\* httpClient.isCompatible: (bool, error) for the response the backend gave.
isCompatible(u, resp) ==
    IF ~Parseable(u) THEN [ok |-> FALSE, err |-> "request"]
    ELSE IF resp.kind = "neterr" THEN [ok |-> FALSE, err |-> "transport"]
    ELSE IF resp.status = StatusNotFound THEN [ok |-> FALSE, err |-> "nil"]
    ELSE IF ~resp.json THEN [ok |-> FALSE, err |-> "json"]
    ELSE LET currentVersion == SemverNew(resp.version)
         IN  IF ~currentVersion.valid THEN [ok |-> FALSE, err |-> "semver"]
             ELSE [ok |-> SemverGTE(currentVersion, requiredVersion), err |-> "nil"]

\* ------------------------------------------------------ facade: the state
NilClient == [kind |-> "nil", id |-> 0]

\* A Go string variable holding u: both words are u's.
WholeURL(u) == [ptr |-> u, len |-> u]

IdleReader ==
    [pc |-> "idle", method |-> "", sub |-> NilClient, got |-> WholeURL(""),
     result |-> "", allowed |-> {}]

IdleWriter ==
    [pc |-> "idle", arg |-> "", inNew |-> FALSE, before |-> NilClient, pre |-> "",
     resp |-> NoResponse, probed |-> FALSE, err |-> "nil"]

\* What a query method of a sub-client returns: the no-op Empty client answers
\* "not configured"; the two dialects ask the backend, which answers or fails.
QueryResults(kind) ==
    IF kind = "empty" THEN {"notConfigured"} ELSE {"ok", "transportError"}

\* A query method that does not take the read lock.
RLockFree_Unlocked == TRUE

\* sync.RWMutex: RLock() goes through when no writer holds or awaits the lock.
RLockFree == rwWriter = "none" /\ rwPending = {}

\* A swap that waits for other writers only (RLock in place of Lock).
LockFree_SharedOnly == rwWriter = "none"

\* sync.RWMutex: Lock() goes through when no one holds the lock.
LockFree == rwWriter = "none" /\ rwReaders = {}

\* The allocation of a sub-client: &emptyHTTPClient{}, &compatibleHTTPClient{...}
NewSub(kind) == [kind |-> kind, id |-> (subClient.id % MaxInstances) + 1]

\* An error path that installs the Empty sub-client whatever was there.
SubAfterFailure_AlwaysEmpty(sub) == NewSub("empty")

\* The error paths of ChangeDataSource:
\*   if c.subClient == nil { c.subClient = &emptyHTTPClient{} }
SubAfterFailure(sub) == IF sub.kind = "nil" THEN NewSub("empty") ELSE sub

\* A NewClient that returns the facade whatever ChangeDataSource returned.
HandsOut_Always(err) == TRUE

\* NewClient: if err := c.ChangeDataSource(url); err != nil { return nil, err }
HandsOut(err) == err = "nil"

\* ---------------------------------------------- facade: ChangeDataSource
\* The call arrives at c.mutex.Lock().
EnterChangeDataSource(w, u, new) ==
    /\ wr[w].pc = "idle"
    /\ wr' = [wr EXCEPT ![w] = [IdleWriter EXCEPT !.pc = "lock", !.arg = u, !.inNew = new]]
    /\ rwPending' = rwPending \cup {w}

\* NewClient(prometheusURL): c := &httpClient{...}; c.ChangeDataSource(url)
NewClient(w, u) ==
    /\ facade \in {"none", "discarded"}
    /\ EnterChangeDataSource(w, u, TRUE)
    /\ facade' = "constructing"
    /\ url' = WholeURL("")
    /\ subClient' = NilClient
    /\ UNCHANGED <<rwReaders, rwWriter, rd, sessVars, docVars, outVars>>

\* A caller holding the facade calls ChangeDataSource(prometheusURL).
ChangeDataSource(w, u) ==
    /\ facade = "live"
    /\ EnterChangeDataSource(w, u, FALSE)
    /\ UNCHANGED <<facade, url, subClient, rwReaders, rwWriter, rd, sessVars, docVars, outVars>>

\* c.mutex.Lock() returns. From here on the URLs a GetURL call in progress
\* may return include this call's.
CDSLock(w) ==
    /\ wr[w].pc = "lock"
    /\ LockFree
    /\ rwWriter' = w
    /\ rwPending' = rwPending \ {w}
    /\ wr' = [wr EXCEPT ![w].pc = "urlPtr", ![w].before = subClient, ![w].pre = url.ptr]
    /\ rd' = [r \in Readers |->
                IF rd[r].method = "GetURL"
                   THEN [rd[r] EXCEPT !.allowed = @ \cup {wr[w].arg}]
                   ELSE rd[r]]
    /\ UNCHANGED <<facade, url, subClient, rwReaders, sessVars, docVars, outVars>>

\* c.url = prometheusURL: the store of the string's first word ...
CDSWriteURLPtr(w) ==
    /\ wr[w].pc = "urlPtr"
    /\ url' = [url EXCEPT !.ptr = wr[w].arg]
    /\ wr' = [wr EXCEPT ![w].pc = "urlLen"]
    /\ UNCHANGED <<facade, subClient, rwReaders, rwWriter, rwPending, rd, sessVars, docVars, outVars>>

\* ... and of its second word.
CDSWriteURLLen(w) ==
    /\ wr[w].pc = "urlLen"
    /\ url' = [url EXCEPT !.len = wr[w].arg]
    /\ wr' = [wr EXCEPT ![w].pc = "newClient"]
    /\ UNCHANGED <<facade, subClient, rwReaders, rwWriter, rwPending, rd, sessVars, docVars, outVars>>

\* Installing sub as c.subClient and leaving for the deferred Unlock with the error to return.
CDSFinish(w, sub, err, resp, probed) ==
    /\ subClient' = sub
    /\ wr' = [wr EXCEPT ![w].pc = "unlock", ![w].err = err, ![w].resp = resp,
                        ![w].probed = probed]
    /\ UNCHANGED <<facade, url, rwReaders, rwWriter, rwPending, rd, sessVars, docVars, outVars>>

\* What ChangeDataSource installs for the empty URL: &emptyHTTPClient{}.
\* An empty-URL branch that returns without installing anything.
SubForEmptyURL_Kept == subClient

SubForEmptyURL == NewSub("empty")

\* The empty URL installs the Empty sub-client; otherwise api.NewClient builds
\* the transport client, which fails on an address that does not parse.
CDSNewClient(w) ==
    /\ wr[w].pc = "newClient"
    /\ IF wr[w].arg = ""
          THEN CDSFinish(w, SubForEmptyURL, "nil", NoResponse, FALSE)
       ELSE IF ~Parseable(wr[w].arg)
          THEN CDSFinish(w, SubAfterFailure(subClient), "newClient", NoResponse, FALSE)
       ELSE /\ wr' = [wr EXCEPT ![w].pc = "probe"]
            /\ UNCHANGED <<facade, url, subClient, rwReaders, rwWriter, rwPending,
                           rd, sessVars, docVars, outVars>>

\* isCompatible, err := c.isCompatible(prometheusURL) and the install that
\* follows it. With keep, the call remembers the response it got.
CDSProbe(w, keep) ==
    /\ wr[w].pc = "probe"
    /\ \E resp \in ProbeResponses :
          LET r == isCompatible(wr[w].arg, resp)
              seen == IF keep THEN resp ELSE NoResponse
          IN  IF r.err # "nil"
                 THEN CDSFinish(w, SubAfterFailure(subClient), r.err, seen, TRUE)
              ELSE IF r.ok
                 THEN CDSFinish(w, NewSub("compatible"), "nil", seen, TRUE)
              ELSE CDSFinish(w, NewSub("notCompatible"), "nil", seen, TRUE)

\* Where a thread is once RLock() has returned: at the read of c.url, or at
\* the call of the sub-client's method.
Entered(m) == IF m = "GetURL" THEN "readPtr" ELSE "call"

\* An Unlock that only the last statement reaches.
Released_OnSuccess(err) == err = "nil"

\* defer c.mutex.Unlock(): the lock is released on every return, whatever
\* the error returned.
Released(err) == TRUE

\* defer c.mutex.Unlock() and the return: Unlock lets in every reader that
\* blocked in RLock() meanwhile; NewClient hands the facade out, or drops it,
\* on the error returned.
CDSUnlock(w) ==
    LET woken == {r \in Readers : rd[r].pc = "blocked"}
    IN  /\ wr[w].pc = "unlock"
        /\ rwWriter' = IF Released(wr[w].err) THEN "none" ELSE rwWriter
        /\ rwReaders' = IF Released(wr[w].err) THEN rwReaders \cup woken ELSE rwReaders
        /\ rd' = [r \in Readers |->
                    IF r \in woken /\ Released(wr[w].err) THEN [rd[r] EXCEPT !.pc = Entered(rd[r].method)]
                                   ELSE rd[r]]
        /\ facade' = IF wr[w].inNew
                        THEN (IF HandsOut(wr[w].err) THEN "live" ELSE "discarded")
                        ELSE facade
        /\ wr' = [wr EXCEPT ![w] = IdleWriter]
        /\ UNCHANGED <<url, subClient, rwPending, sessVars, docVars, outVars>>

\* ------------------------------------------------- facade: query methods
\* A caller holding the facade calls Metadata, AllMetadata, LabelNames,
\* LabelValues or GetURL; the call arrives at c.mutex.RLock(). For GetURL, the
\* URLs in effect while the call runs start with the current one (both, when
\* a swap is in progress).
CallMethod(r, m) ==
    /\ facade = "live"
    /\ rd[r].pc = "idle"
    /\ rd' = [rd EXCEPT ![r] =
                [IdleReader EXCEPT
                    !.pc = "rlock", !.method = m,
                    !.allowed = IF m # "GetURL" THEN {}
                                ELSE IF rwWriter # "none"
                                   THEN {wr[rwWriter].pre, wr[rwWriter].arg}
                                   ELSE {url.ptr}]]
    /\ UNCHANGED <<facade, url, subClient, rwReaders, rwWriter, rwPending, wr,
                   sessVars, docVars, outVars>>

\* c.mutex.RLock(): it returns at once when no writer holds or awaits the
\* lock, and blocks until a writer's Unlock otherwise.
RLock(r) ==
    /\ rd[r].pc = "rlock"
    /\ IF RLockFree
          THEN /\ rwReaders' = rwReaders \cup {r}
               /\ rd' = [rd EXCEPT ![r].pc = Entered(rd[r].method)]
          ELSE /\ rd' = [rd EXCEPT ![r].pc = "blocked"]
               /\ UNCHANGED rwReaders
    /\ UNCHANGED <<facade, url, subClient, rwWriter, rwPending, wr, sessVars, docVars, outVars>>

\* return c.subClient.Metadata(metric): c.subClient is read and the method of
\* that instance is called (a nil interface faults).
QueryStart(r) ==
    /\ rd[r].pc = "call"
    /\ rd' = [rd EXCEPT ![r].pc = IF subClient.kind = "nil" THEN "fault" ELSE "wait",
                        ![r].sub = subClient]
    /\ UNCHANGED <<facade, url, subClient, rwReaders, rwWriter, rwPending, wr,
                   sessVars, docVars, outVars>>

\* The sub-client's method returns.
QueryFinish(r) ==
    /\ rd[r].pc = "wait"
    /\ \E res \in QueryResults(rd[r].sub.kind) :
          rd' = [rd EXCEPT ![r].pc = "runlock", ![r].result = res]
    /\ UNCHANGED <<facade, url, subClient, rwReaders, rwWriter, rwPending, wr,
                   sessVars, docVars, outVars>>

\* return c.url: the load of the string's first word ...
GetURLReadPtr(r) ==
    /\ rd[r].pc = "readPtr"
    /\ rd' = [rd EXCEPT ![r].pc = "readLen", ![r].got.ptr = url.ptr]
    /\ UNCHANGED <<facade, url, subClient, rwReaders, rwWriter, rwPending, wr,
                   sessVars, docVars, outVars>>

\* ... and of its second word.
GetURLReadLen(r) ==
    /\ rd[r].pc = "readLen"
    /\ rd' = [rd EXCEPT ![r].pc = "runlock", ![r].got.len = url.len]
    /\ UNCHANGED <<facade, url, subClient, rwReaders, rwWriter, rwPending, wr,
                   sessVars, docVars, outVars>>

\* defer c.mutex.RUnlock() and the return.
RUnlock(r) ==
    /\ rd[r].pc = "runlock"
    /\ rwReaders' = rwReaders \ {r}
    /\ rd' = [rd EXCEPT ![r] = IdleReader]
    /\ UNCHANGED <<facade, url, subClient, rwWriter, rwPending, wr, sessVars, docVars, outVars>>

\* --------------------------------------------------------- specifications
Init ==
    /\ rootDone = FALSE
    /\ origin = [s \in Sessions |-> "none"]
    /\ prometheus = [s \in Sessions |-> "nil"]
    /\ state = [s \in Sessions |-> serverCreated]
    /\ running = [s \in Sessions |-> FALSE]
    /\ connOpen = [s \in Sessions |-> FALSE]
    /\ lifetimeDone = [s \in Sessions |-> FALSE]
    /\ lastResult = [s \in Sessions |-> "none"]
    /\ docs = [s \in Sessions |-> [u \in URIs |-> NoDoc]]
    /\ ctxs = [s \in Sessions |-> <<>>]
    /\ tasks = [s \in Sessions |-> <<>>]
    /\ sent = [s \in Sessions |-> <<>>]
    /\ facade = "none"
    /\ url = WholeURL("")
    /\ subClient = NilClient
    /\ rwReaders = {}
    /\ rwWriter = "none"
    /\ rwPending = {}
    /\ rd = [r \in Readers |-> IdleReader]
    /\ wr = [w \in Writers |-> IdleWriter]

\* What a session does once it is built: its loop, its requests, its tasks.
SessionStep(s) ==
    \/ Run(s)
    \/ Initialize(s)
    \/ Initialized(s)
    \/ Shutdown(s)
    \/ Exit(s)
    \/ TransportClose(s)
    \/ \E u \in ConfigURLs : SessionChangeDataSource(s, u)
    \/ \E u \in URIs, c \in Contents, v \in 1..MaxVersion : DidOpen(s, u, c, v)
    \/ \E u \in URIs, c \in Contents, v \in 1..MaxVersion : DidChange(s, u, c, v)
    \/ \E u \in URIs : DidClose(s, u)
    \/ \E t \in 1..MaxTasks : diagnostics(s, t)

\* One session on stdin/stdout, its requests and its diagnostics tasks.
Next ==
    \/ CancelRoot
    \/ \E s \in StdioSessions :
        \/ \E cfg \in ConfigURLs : StdioServer(s, cfg)
        \/ SessionStep(s)

Spec == Init /\ [][Next]_vars

\* The sessions of one process under one root context: built by a caller of
\* ServerFromStream, who runs them, or by the acceptor. Each session is opened
\* to requests by initialize, opens and closes documents at version 1,
\* changes its data source, and ends by exit, transport close or the root's
\* cancellation.
WorkerStep(s) ==
    \/ \E cfg \in ConfigURLs : CallerSession(s, cfg)
    \/ \E cfg \in ConfigURLs : Accept(s, cfg)
    \/ Run(s)
    \/ Initialize(s)
    \/ Exit(s)
    \/ TransportClose(s)
    \/ \E u \in ConfigURLs : SessionChangeDataSource(s, u)
    \/ \E u \in URIs : DidOpen(s, u, "up", 1)
    \/ \E u \in URIs : DidClose(s, u)
    \/ \E t \in 1..MaxTasks : diagnostics(s, t)

NextSessions ==
    \/ CancelRoot
    \/ \E s \in Sessions : WorkerStep(s)

SpecSessions == Init /\ [][NextSessions]_vars

\* The thread that builds the facade and swaps its data source.
Caller == "w1"

\* The steps of NewClient and ChangeDataSource in thread w; with keep, the
\* build-info response is kept beside the sub-client it selected.
Swap(w, keep) ==
    \/ \E u \in URLs : NewClient(w, u)
    \/ \E u \in URLs : ChangeDataSource(w, u)
    \/ CDSLock(w)
    \/ CDSWriteURLPtr(w)
    \/ CDSWriteURLLen(w)
    \/ CDSNewClient(w)
    \/ CDSProbe(w, keep)
    \/ CDSUnlock(w)

\* The steps of a query method or of GetURL in thread r.
Query(r) ==
    \/ \E m \in Methods : CallMethod(r, m)
    \/ RLock(r)
    \/ QueryStart(r)
    \/ QueryFinish(r)
    \/ GetURLReadPtr(r)
    \/ GetURLReadLen(r)
    \/ RUnlock(r)

\* One facade, the caller that swaps its data source and concurrent readers.
NextClient ==
    \/ Swap(Caller, FALSE)
    \/ \E r \in Readers : Query(r)

SpecClient == Init /\ [][NextClient]_vars

\* One facade with concurrent writers and readers, each step of a call that
\* has started being taken in the end: a thread that is not blocked runs
\* (weak fairness), the probe and the upstream calls return, and a thread
\* blocked in Lock() gets the lock once it is free often enough (sync.Mutex
\* hands a starving waiter the lock: strong fairness). Callers need not call.
\* The URLs are a backend, whose probe succeeds or fails, and an address
\* that does not parse.
LockURLs == {"http://prom-a", "::bad"}
LockMethods == {"Metadata", "GetURL"}

NextLock ==
    \/ \E w \in Writers :
          \/ \E u \in LockURLs : NewClient(w, u)
          \/ \E u \in LockURLs : ChangeDataSource(w, u)
          \/ CDSLock(w)
          \/ CDSWriteURLPtr(w)
          \/ CDSWriteURLLen(w)
          \/ CDSNewClient(w)
          \/ CDSProbe(w, FALSE)
          \/ CDSUnlock(w)
    \/ \E r \in Readers :
          \/ \E m \in LockMethods : CallMethod(r, m)
          \/ RLock(r)
          \/ QueryStart(r)
          \/ QueryFinish(r)
          \/ GetURLReadPtr(r)
          \/ GetURLReadLen(r)
          \/ RUnlock(r)

FairLock ==
    /\ \A w \in Writers :
          /\ SF_vars(CDSLock(w))
          /\ WF_vars(CDSWriteURLPtr(w) \/ CDSWriteURLLen(w) \/ CDSNewClient(w)
                        \/ CDSProbe(w, FALSE) \/ CDSUnlock(w))
    /\ \A r \in Readers :
          WF_vars(RLock(r) \/ QueryStart(r) \/ QueryFinish(r) \/ GetURLReadPtr(r)
                    \/ GetURLReadLen(r) \/ RUnlock(r))

SpecLock == Init /\ [][NextLock]_vars /\ FairLock

\* One facade and its caller alone, over every build-info response.
NextDialect == Swap(Caller, TRUE)

SpecDialect == Init /\ [][NextDialect]_vars

\* ================================================================= claims
\* The reports a session's latest step delivered to the peer.
Delivered(s) == {sent[s][i] : i \in {j \in DOMAIN sent[s] : ~sent[s][j].err}}

\* The live VersionContexts of a URI.
LiveCtxs(s, u) == {c \in DOMAIN ctxs[s] : ctxs[s][c].uri = u /\ ctxs[s][c].done = "live"}

\* C1: no diagnostics report computed under a VersionContext reaches the peer
\* once that context's version has been superseded by a change or its
\* document has been closed.
C1_NoStalePublish ==
    \A s \in Sessions : \A n \in Delivered(s) :
        n.kind = "diag" => n.ctxDone \notin {"superseded", "closed"}

\* C2: per URI at most one VersionContext is live; a live one is the context
\* of the tracked document and carries its current version; an untracked
\* (closed) URI has no live context.
C2_OneLiveContext ==
    \A s \in Sessions : \A u \in URIs :
        /\ Cardinality(LiveCtxs(s, u)) <= 1
        /\ \A c \in LiveCtxs(s, u) :
              /\ docs[s][u].tracked
              /\ docs[s][u].ctx = c
              /\ ctxs[s][c].version = docs[s][u].version

\* C2's case: a change has superseded a version, whose context is cancelled,
\* and the new version's context is the live one.
C2_Witness ==
    \E s \in Sessions : \E u \in URIs :
        /\ LiveCtxs(s, u) # {}
        /\ \E c \in DOMAIN ctxs[s] : ctxs[s][c].uri = u /\ ctxs[s][c].done = "superseded"

\* C3: a session is in Created when it has just been built, and no step
\* lowers its serverState or leaves ShutDown.
C3_StateMonotonic ==
    /\ [](\A s \in Sessions : lastResult[s] = "constructed" => state[s] = serverCreated)
    /\ [][\A s \in Sessions :
            /\ state'[s] >= state[s]
            /\ state[s] = serverShutDown => state'[s] = serverShutDown]_vars

\* C3's case: a session that went through the handshake was shut down, and a
\* later request found it in ShutDown.
C3_Witness ==
    \E s \in Sessions :
        state[s] = serverShutDown /\ running[s] /\ lastResult[s] = "InvalidState"

\* C10: no report of a diagnostics task reaches the peer after the close of
\* its document, and the close sends exactly one clear-diagnostics
\* notification (empty findings) for the closed URI.
C10_CloseSuppressesPublish ==
    \A s \in Sessions :
        /\ \A n \in Delivered(s) : n.kind = "diag" => n.ctxDone # "closed"
        /\ lastResult[s] = "closed" =>
              /\ Len(sent[s]) = 1
              /\ sent[s][1].kind = "clear"
              /\ sent[s][1].findings = <<>>
              /\ ~docs[s][sent[s][1].uri].tracked

\* A call of ChangeDataSource about to return (the lock is still held).
Returning(w) == wr[w].pc = "unlock"

\* The inputs on which a ChangeDataSource with a non-empty URL fails: the
\* address does not parse, the probe's transport fails, or a response other
\* than 404 carries no JSON or no major.minor.patch version.
FailingInput(w) ==
    /\ wr[w].arg # ""
    /\ \/ ~Parseable(wr[w].arg)
       \/ wr[w].probed /\ wr[w].resp.kind = "neterr"
       \/ /\ wr[w].probed /\ wr[w].resp.kind = "http"
          /\ wr[w].resp.status # StatusNotFound
          /\ (~wr[w].resp.json \/ Len(wr[w].resp.version.parts) # 3)

\* C4: a ChangeDataSource with a non-empty URL that fails returns an error
\* and leaves the sub-client instance that was installed before the call;
\* only when there was none does it install the Empty sub-client.
C4_FailureKeepsSubClient ==
    \A w \in Writers :
        Returning(w) /\ FailingInput(w) =>
            /\ wr[w].err # "nil"
            /\ wr[w].before.kind # "nil" => subClient = wr[w].before
            /\ wr[w].before.kind = "nil" => subClient.kind = "empty"

\* C4's case: a probe failed on a facade holding a Compatible sub-client.
C4_Witness ==
    \E w \in Writers :
        /\ Returning(w) /\ FailingInput(w)
        /\ wr[w].probed
        /\ wr[w].before.kind = "compatible"

\* C5: whenever a query method can run (the facade was handed out by
\* NewClient, or a reader is inside a query method) a sub-client is
\* installed, and NewClient hands the facade out only when its
\* ChangeDataSource returned no error.
C5_SubClientInstalled ==
    /\ [](/\ facade = "live" => subClient.kind # "nil"
          /\ \A r \in Readers : rd[r].pc # "fault")
    /\ [][facade # "live" /\ facade' = "live" =>
            \E w \in Writers : wr[w].inNew /\ Returning(w) /\ wr[w].err = "nil"]_vars

\* C5's case: a query runs on a facade that has been through a failed
\* ChangeDataSource (the URL is the one that does not parse).
C5_Witness ==
    \E r \in Readers :
        rd[r].pc = "wait" /\ url = WholeURL("::bad") /\ rwWriter = "none"

\* major.minor.patch precedence against 2.15.0, written out; on equal numbers
\* a pre-release is below the release.
AtLeastBaseline(str) ==
    LET p == str.parts
    IN  \/ p[1] > 2
        \/ p[1] = 2 /\ p[2] > 15
        \/ p[1] = 2 /\ p[2] = 15 /\ p[3] > 0
        \/ p = <<2, 15, 0>> /\ ~str.pre

\* C6: a build-info response with status 404 selects NotCompatible; any other
\* response carrying a major.minor.patch version selects Compatible exactly
\* when the version is at least 2.15.0, and NotCompatible otherwise.
C6_DialectSelection ==
    \A w \in Writers :
        Returning(w) /\ wr[w].probed /\ wr[w].resp.kind = "http" =>
            /\ wr[w].resp.status = StatusNotFound =>
                  wr[w].err = "nil" /\ subClient.kind = "notCompatible"
            /\ /\ wr[w].resp.status # StatusNotFound
               /\ wr[w].resp.json
               /\ Len(wr[w].resp.version.parts) = 3
               => /\ wr[w].err = "nil"
                  /\ subClient.kind = IF AtLeastBaseline(wr[w].resp.version)
                                         THEN "compatible" ELSE "notCompatible"

\* C6's case: the backend reported exactly 2.15.0.
C6_Witness ==
    \E w \in Writers :
        /\ Returning(w)
        /\ wr[w].resp.status = 200
        /\ wr[w].resp.version = [parts |-> <<2, 15, 0>>, pre |-> FALSE]
        /\ subClient.kind = "compatible"

\* C7: ChangeDataSource("") returns nil without a probe and leaves the Empty
\* sub-client installed; a query method that ran on the Empty sub-client
\* returns "not configured"; and on one facade the Empty sub-client is
\* replaced only by a ChangeDataSource with a non-empty URL that returns nil.
C7_EmptyURL ==
    /\ [](/\ \A w \in Writers :
                Returning(w) /\ wr[w].arg = "" =>
                    wr[w].err = "nil" /\ ~wr[w].probed /\ subClient.kind = "empty"
          /\ \A r \in Readers :
                rd[r].pc = "runlock" /\ rd[r].method \in QueryMethods
                    /\ subClient.kind = "empty"
                => rd[r].result = "notConfigured")
    /\ [][facade' = facade /\ subClient.kind = "empty" /\ subClient'.kind # "empty" =>
            \E w \in Writers :
                wr'[w].pc = "unlock" /\ wr'[w].arg # "" /\ wr'[w].err = "nil"]_vars

\* C7's case: ChangeDataSource("") replaced an earlier sub-client, and a
\* query method then answered "not configured".
C7_Witness ==
    \E r \in Readers :
        /\ rd[r].pc = "runlock" /\ rd[r].result = "notConfigured"
        /\ url = WholeURL("")
        /\ subClient.id > 1

\* The threads inside a query method or GetURL, between RLock and RUnlock.
Inside(r) == rd[r].pc \in {"call", "wait", "readPtr", "readLen", "runlock"}

\* The writer is between its first write to the facade and its return.
MidSwap(w) == wr[w].pc \in {"urlLen", "newClient", "probe", "unlock"}

\* C8: while a thread is inside a query method or GetURL no ChangeDataSource
\* is between its first write and its return (the URL is whole), and the
\* sub-client a query method was called on is still the installed one until
\* the method returns.
C8_SwapAtomic ==
    \A r \in Readers :
        Inside(r) =>
            /\ \A w \in Writers : ~MidSwap(w)
            /\ url.ptr = url.len
            /\ rd[r].pc \in {"wait", "runlock"} /\ rd[r].method \in QueryMethods
               => rd[r].sub = subClient

\* C8's case: a query method is running on a sub-client while a
\* ChangeDataSource waits for the lock.
C8_Witness ==
    \E r \in Readers : \E w \in Writers :
        rd[r].pc = "wait" /\ wr[w].pc = "lock" /\ ~wr[w].inNew

\* C9: GetURL returns a whole URL, and it is one of the URLs in effect while
\* the call ran: the one before a concurrent ChangeDataSource or that call's.
C9_GetURLWhole ==
    \A r \in Readers :
        rd[r].pc = "runlock" /\ rd[r].method = "GetURL" =>
            /\ rd[r].got.ptr = rd[r].got.len
            /\ rd[r].got.ptr \in rd[r].allowed

\* C9's case: a swap to another URL took place during the GetURL call, which
\* returns the new URL.
C9_Witness ==
    \E r \in Readers :
        /\ rd[r].pc = "runlock" /\ rd[r].method = "GetURL"
        /\ Cardinality(rd[r].allowed) = 2
        /\ rd[r].got = url

\* C11: a session the acceptor built on an accepted connection, with the
\* connection open and its lifetime scope live, has its message loop running
\* or can start it.
C11_AcceptedSessionRuns ==
    \A s \in Sessions :
        origin[s] = "tcp" /\ connOpen[s] /\ ~lifetimeDone[s] =>
            running[s] \/ ENABLED Run(s)

\* What belongs to session t: its origin, upstream client, ServerState, loop,
\* connection, lifetime scope, documents, VersionContexts and tasks.
SessionView(t) ==
    <<origin[t], prometheus[t], state[t], running[t], connOpen[t], lifetimeDone[t],
      docs[t], ctxs[t], tasks[t]>>

LiveIn(s) == {c \in DOMAIN ctxs[s] : ctxs[s][c].done = "live"}

\* C13: once the root context is cancelled, the lifetime scope of every
\* session built from it is cancelled; a session whose lifetime scope is
\* cancelled has no VersionContext that is not; and a step that cancels one
\* session's lifetime scope while the root is live leaves the lifetime scope
\* and the VersionContexts of every other session as they were.
C13_CancellationTree ==
    /\ [](\A s \in Sessions :
            /\ rootDone /\ origin[s] # "none" => lifetimeDone[s]
            /\ lifetimeDone[s] => LiveIn(s) = {})
    /\ [][\A s \in Sessions :
            ~lifetimeDone[s] /\ lifetimeDone'[s] /\ ~rootDone' =>
                \A t \in Sessions \ {s} :
                    lifetimeDone'[t] = lifetimeDone[t] /\ ctxs'[t] = ctxs[t]]_vars

\* C13's case: one session's exit has cancelled its VersionContext while
\* another session, under the same live root, keeps a live one.
C13_Witness ==
    \E s \in Sessions : \E t \in Sessions \ {s} :
        /\ ~rootDone
        /\ lifetimeDone[s] /\ \E c \in DOMAIN ctxs[s] : ctxs[s][c].done = "lifetime"
        /\ ~lifetimeDone[t] /\ LiveIn(t) # {}

\* The session has ended: its lifetime scope is cancelled or its transport
\* is closed.
Ended(s) == origin[s] # "none" /\ (lifetimeDone[s] \/ ~connOpen[s])

\* C14: the step that cancels a built session's lifetime scope or closes its
\* transport stops the message loop, puts the session in ShutDown and leaves
\* none of its VersionContexts live; and what a session that has ended
\* publishes is clear-diagnostics notifications only.
C14_EndedSessionSilent ==
    /\ [][\A s \in Sessions :
            /\ origin[s] # "none"
            /\ \/ ~lifetimeDone[s] /\ lifetimeDone'[s]
               \/ connOpen[s] /\ ~connOpen'[s]
            => ~running'[s] /\ state'[s] = serverShutDown /\ LiveIn(s)' = {}]_vars
    /\ [](\A s \in Sessions :
            Ended(s) => \A n \in Delivered(s) : n.kind = "clear")

\* C15: a request refused with AlreadyOpen or OutOfOrder leaves the
\* session's documents and VersionContexts as they were; a tracked document
\* gets another VersionContext only with a greater version; and the
\* VersionContext of a document of a live session is not cancelled.
C15_RejectedLeavesCache ==
    /\ [][\A s \in Sessions :
            /\ lastResult'[s] \in {"AlreadyOpen", "OutOfOrder"} =>
                  docs'[s] = docs[s] /\ ctxs'[s] = ctxs[s] /\ tasks'[s] = tasks[s]
            /\ \A u \in URIs :
                  /\ docs[s][u].tracked /\ docs'[s][u].tracked
                  /\ docs'[s][u] # docs[s][u]
                  => docs'[s][u].version > docs[s][u].version]_vars
    /\ [](\A s \in Sessions : \A u \in URIs :
            docs[s][u].tracked /\ ~lifetimeDone[s] => CtxLive(s, docs[s][u].ctx))

\* C15's case: a change to a version not above the current one was refused
\* on a document whose VersionContext is live.
C15_Witness ==
    \E s \in Sessions : \E u \in URIs :
        /\ lastResult[s] = "OutOfOrder"
        /\ docs[s][u].tracked /\ docs[s][u].version = MaxVersion
        /\ CtxLive(s, docs[s][u].ctx)

\* C16: no diagnostics task ends in a fault, and a task whose lookup found
\* no document does not go on to read a version or diagnostics.
C16_MissingDocumentDropped ==
    \A s \in Sessions : \A t \in DOMAIN tasks[s] :
        /\ tasks[s][t].pc # "fault"
        /\ tasks[s][t].pc \in {"getDiagnostics", "publish", "sending"} => tasks[s][t].hasDoc

\* The reports (not the clear notifications) in a list of notifications.
Reports(msgs) == {i \in DOMAIN msgs : msgs[i].kind = "diag"}

\* A task that has returned or faulted.
Over(tk) == tk.pc \in {"done", "fault"}

\* C17: a step sends at most one report, and it is the write of a task that
\* was in its publish call and is over afterwards, carrying the task's URI,
\* version and findings; a task that is over stays so; a version read or a
\* computation under a cancelled VersionContext ends the task; and a task
\* past its version read holds the URI and version its VersionContext is
\* bound to.
C17_OneReportPerTask ==
    /\ [][\A s \in Sessions :
            /\ Cardinality(Reports(sent'[s])) <= 1
            /\ \A i \in Reports(sent'[s]) :
                  \E t \in DOMAIN tasks[s] :
                      /\ tasks[s][t].pc = "sending" /\ tasks'[s][t].pc = "done"
                      /\ sent'[s][i].uri = tasks[s][t].uri
                      /\ sent'[s][i].version = tasks[s][t].version
                      /\ sent'[s][i].findings = tasks[s][t].findings
            /\ \A t \in DOMAIN tasks[s] :
                  /\ Over(tasks[s][t]) => tasks'[s][t] = tasks[s][t]
                  /\ /\ tasks[s][t].pc \in {"getVersion", "getDiagnostics"}
                     /\ tasks'[s][t] # tasks[s][t]
                     /\ ~CtxLive(s, tasks[s][t].ctx)
                     => Over(tasks'[s][t])]_vars
    /\ [](\A s \in Sessions : \A t \in DOMAIN tasks[s] :
            tasks[s][t].pc \in {"getDiagnostics", "publish", "sending"} =>
                /\ tasks[s][t].hasDoc
                /\ ctxs[s][tasks[s][t].ctx].uri = tasks[s][t].uri
                /\ ctxs[s][tasks[s][t].ctx].version = tasks[s][t].version)

\* C17's case: the task of the second version published its report, with a
\* finding, under its live VersionContext.
C17_Witness ==
    \E s \in Sessions : \E i \in DOMAIN sent[s] :
        /\ sent[s][i].kind = "diag" /\ ~sent[s][i].err
        /\ sent[s][i].ctxDone = "live"
        /\ sent[s][i].version = 2 /\ sent[s][i].findings # <<>>
        /\ Len(ctxs[s]) = 2

\* C18: a ChangeDataSource on a facade in use that returns an error leaves
\* the URL of the facade as it was before the call.
C18_FailureKeepsURL ==
    \A w \in Writers :
        Returning(w) /\ ~wr[w].inNew /\ wr[w].err # "nil" =>
            url = WholeURL(wr[w].pre)

\* C19: every call of ChangeDataSource (NewClient's too) and every call of a
\* query method or GetURL that has started returns in the end.
C19_EveryCallReturns ==
    /\ \A w \in Writers : (wr[w].pc # "idle") ~> (wr[w].pc = "idle")
    /\ \A r \in Readers : (rd[r].pc # "idle") ~> (rd[r].pc = "idle")

\* C19's case: a reader is blocked in RLock() behind a writer that waits in
\* Lock() for another reader, while a second writer waits too.
C19_Witness ==
    /\ \E r \in Readers : rd[r].pc = "blocked"
    /\ rwReaders # {}
    /\ \A w \in Writers : wr[w].pc = "lock"

\* C20: a step in which a send fails on an open connection leaves the
\* session's ServerState, loop and lifetime scope as they were; if the send
\* was a task's report, the documents and VersionContexts are unchanged and
\* the task has returned; if it was the clear-diagnostics of a close, the
\* close has returned normally, with the document no longer tracked.
C20_SendFailureOnlyLogged ==
    [][\A s \in Sessions : \A i \in DOMAIN sent'[s] :
          sent'[s][i].err /\ connOpen'[s] =>
              /\ state'[s] = state[s]
              /\ running'[s] = running[s]
              /\ lifetimeDone'[s] = lifetimeDone[s]
              /\ IF sent'[s][i].kind = "diag"
                    THEN /\ docs'[s] = docs[s] /\ ctxs'[s] = ctxs[s]
                         /\ \E t \in DOMAIN tasks[s] :
                               tasks[s][t].pc = "sending" /\ tasks'[s][t].pc = "done"
                    ELSE /\ lastResult'[s] = "closed"
                         /\ ~docs'[s][sent'[s][i].uri].tracked
                         /\ tasks'[s] = tasks[s]]_vars

\* C20's case: a task's report failed to go out on the open connection of a
\* session that is running and serving.
C20_Witness ==
    \E s \in Sessions : \E i \in DOMAIN sent[s] :
        /\ sent[s][i].kind = "diag" /\ sent[s][i].err
        /\ connOpen[s] /\ running[s] /\ Serving(s)

====
